---- MODULE Spec2Model ----
(***************************************************************************)
(* Model of the prediction dispatch path of label-platform-backend:        *)
(* ImageHandler.PredictImage (rate limit by a Redis cooldown key, image    *)
(* lookup, object fetch, base64 payload, fan-out to three Redis lists).    *)
(* Every Redis / Postgres / MinIO round trip of the handler is one atomic  *)
(* step; concurrent requests interleave between round trips.  Request     *)
(* goroutines are anonymous, so the requests form a bag of records.  Time  *)
(* passes in units of one minute; Redis keys carry their remaining TTL.    *)
(* Further down: ImageHandler.UploadImage with the use case behind it     *)
(* (SpecUpload), NewRedisConnection, the start-up of an instance           *)
(* (SpecStartup), DeleteImage next to uploads (SpecStore), and UpdateImage *)
(* with UpdateGroundTruth (SpecUpdate).                                    *)
(***************************************************************************)
EXTENDS Integers, Sequences, FiniteSets, Bags, TLC

(* ---------------------------- bounds ----------------------------------- *)
\* number of PredictImage requests in one behaviour, each served by its own
\* goroutine (on any instance)
MaxCalls == 2
\* number of round trips (Redis, Postgres, MinIO) that may fail in one behaviour
MaxFaults == 1

(* ------------------------- program constants --------------------------- *)
\* 5*time.Minute, in minutes
CooldownTTL == 5

QueueGPT == "label-platform-queue-gpt"
QueueClaude == "label-platform-queue-claude"
QueueGemini == "label-platform-queue-gemini"
QueueResult == "label-platform-queue-result"

\* mutant: the third push goes to the queue of the results
ModelQueuesWithResult == << QueueGPT, QueueClaude, QueueResult >>

\* the order in which PredictImage pushes
ModelQueues == << QueueGPT, QueueClaude, QueueGemini >>
AllQueues == {QueueGPT, QueueClaude, QueueGemini, QueueResult}

(* ----------------------------- inputs ---------------------------------- *)
\* canonical UUIDs of the two images in the metadata store
Resources == {"a", "b"}
\* path parameters the requests of Spec carry: the canonical and the
\* upper-case spelling of one UUID, and a malformed one
IdStrings == {"a", "A", "zz"}

NoKey == [val |-> "", ttl |-> 0]
\* a nil datatypes.JSON (NULL in the jsonb column)
NullJSON == ""
\* entity.Image with every field at its zero value: no record
NoImage ==
    [ ID |-> "", Name |-> "", MinioPath |-> "",
      GroundTruth |-> NullJSON, PredictedLabels |-> NullJSON,
      EvaluationScores |-> NullJSON, CreatedAt |-> 0, UpdatedAt |-> 0 ]
NoBytes == << -1 >>
NoPayload == << >>

\* uuid.Parse followed by id.String(): accepts both spellings of a UUID and
\* yields the canonical lower-case form; "" stands for err != nil; the ids
\* that uuid.New() gave to uploads ("u1", "u2", ...) are canonical
UUIDParse(s) ==
    CASE s = "a" -> "a"
      [] s = "A" -> "a"
      [] s = "b" -> "b"
      [] Len(s) = 2 /\ SubSeq(s, 1, 1) = "u" -> s
      [] OTHER -> ""

\* mutant: one key for all images
LockKeyShared(id) == "predict-lock:"

LockKey(id) == "predict-lock:" \o id
LockKeys == {LockKey(r) : r \in Resources}

(* -------------------------- Redis primitives --------------------------- *)
\* mutant: the TTL read looks at a key that is never set
RedisTTLWrongKey(store, key) == -2

\* TTL key: remaining time, or -2ns (go-redis keeps -2 unscaled) if absent
RedisTTL(store, key) ==
    IF store[key] # NoKey THEN store[key].ttl ELSE -2

\* mutant: a plain SET, which always reports success
SetNXReplyAlways(store, key) == TRUE

\* mutant: the reply is read the wrong way round
SetNXReplyInverted(store, key) == store[key] # NoKey

\* SET key val NX EX ttl: the reply (true iff the key was absent)
SetNXReply(store, key) == store[key] = NoKey

\* mutant: SET with EX but without NX, which rewrites a key that exists
SetNXStoreRefresh(store, key, val, ttl) ==
    [store EXCEPT ![key] = [val |-> val, ttl |-> ttl]]

\* mutant: SET without NX and with a shorter expiry
SetNXStoreShorten(store, key, val, ttl) ==
    [store EXCEPT ![key] = [val |-> val, ttl |-> 1]]

\* mutant: SETNX followed by a separate EXPIRE that is never reached; the
\* key has no expiry (TTL reports -1)
SetNXStoreNoExpiry(store, key, val, ttl) ==
    IF store[key] # NoKey THEN store
    ELSE [store EXCEPT ![key] = [val |-> val, ttl |-> -1]]

\* SET key val NX EX ttl: the store afterwards
SetNXStore(store, key, val, ttl) ==
    IF store[key] # NoKey THEN store
    ELSE [store EXCEPT ![key] = [val |-> val, ttl |-> ttl]]

\* mutant: keys disappear one minute before their time
ExpireEarly(store) ==
    [k \in DOMAIN store |->
        IF store[k] = NoKey \/ store[k].ttl <= 2 THEN NoKey
        ELSE [store[k] EXCEPT !.ttl = @ - 1]]

\* mutant: keys set without an expiry, which never disappear
ExpireNever(store) == store

\* one minute passes: remaining times shrink, keys that reach 0 disappear;
\* a key without expiry (ttl -1) stays
Expire(store) ==
    [k \in DOMAIN store |->
        IF store[k] # NoKey /\ store[k].ttl = -1 THEN store[k]
        ELSE IF store[k] = NoKey \/ store[k].ttl <= 1 THEN NoKey
        ELSE [store[k] EXCEPT !.ttl = @ - 1]]

\* int(ttl.Seconds()): whole seconds of a duration, truncated towards zero;
\* the negative sentinels are nanoseconds and truncate to 0
IntSeconds(ttl) == IF ttl < 0 THEN 0 ELSE ttl * 60

(* --------------------------- base64 / JSON ----------------------------- *)
\* base64.StdEncoding.EncodeToString over a byte sequence; the result is the
\* sequence of alphabet indices 0..63, with 64 standing for the padding '='
RECURSIVE Base64(_)
Base64(bs) ==
    IF Len(bs) = 0 THEN << >>
    ELSE IF Len(bs) = 1 THEN
        << bs[1] \div 4, (bs[1] % 4) * 16, 64, 64 >>
    ELSE IF Len(bs) = 2 THEN
        << bs[1] \div 4, (bs[1] % 4) * 16 + bs[2] \div 16, (bs[2] % 16) * 4, 64 >>
    ELSE
        << bs[1] \div 4, (bs[1] % 4) * 16 + bs[2] \div 16,
           (bs[2] % 16) * 4 + bs[3] \div 64, bs[3] % 64 >>
        \o Base64(SubSeq(bs, 4, Len(bs)))

\* json.Marshal of map[string]any{"id":..., "image_base64":...}: keys sorted
Marshal(id, b64) == << "id", id, "image_base64", b64 >>

(* ------------------------------ state ---------------------------------- *)
VARIABLES
    locks,      \* Redis string keys "predict-lock:<id>": value, remaining TTL
    queues,     \* Redis lists, one per queue name
    images,     \* metadata store: image record per id
    objects,    \* object store: bytes per storage path
    calls,      \* bag of requests: position and locals of each PredictImage
    hist,       \* history per resource: successful SetNX calls and their age
    nfaults,    \* number of round trips that have failed so far
    conn        \* position of a NewRedisConnection call (start-up of an instance)

vars == << locks, queues, images, objects, calls, hist, nfaults, conn >>

\* no NewRedisConnection call is under way
NotConnecting == [pc |-> "idle", i |-> 0]

\* locals of one PredictImage invocation, followed by its history:
\*   startFree  the store held no lock for the id when the request read it
\*   startOpen  a full cooldown had elapsed since the last acquisition
\*   raced      another request took the lock while this one was at the gate
\*   lapsed     a cooldown of the id ran out after this request began
\*   redisErr   a lock-store round trip of this request returned an error
\*   got        remaining TTL of the key right after this request's SetNX
\*   fetched    GetObject was called
\*   fetchErr   GetObject or io.ReadAll returned an error
\*   attempted  the queues an RPush was issued for
\*   pushed     the queues whose RPush appended the payload
NewCall ==
    [ pc |-> "new", id |-> "", ttl |-> 0, ok |-> FALSE,
      image |-> NoImage, imgBytes |-> NoBytes, payloadJSON |-> NoPayload,
      status |-> 0, body |-> "", retry |-> -1,
      startFree |-> FALSE, startOpen |-> FALSE, raced |-> FALSE,
      lapsed |-> FALSE, redisErr |-> FALSE, got |-> 0,
      fetched |-> FALSE, fetchErr |-> FALSE, attempted |-> {}, pushed |-> {} ]

\* the requests, each once
Calls == BagToSet(calls)

\* the bag with one copy of c
One(c) == SetToBag({c})

\* the requests after one of them moved from c to c1
Moved(bag, c, c1) == (bag (-) One(c)) (+) One(c1)

RECURSIVE SumCopies(_, _)
SumCopies(S, bag) ==
    IF S = {} THEN 0
    ELSE LET c == CHOOSE x \in S : TRUE
         IN  bag[c] + SumCopies(S \ {c}, bag)

\* the bag with each request c replaced by f[c]
BagMap(f, bag) ==
    [c1 \in {f[c] : c \in BagToSet(bag)} |->
        SumCopies({c \in BagToSet(bag) : f[c] = c1}, bag)]

\* position of a queue name in the push order
QueueIndex(q) == CHOOSE i \in 1..Len(ModelQueues) : ModelQueues[i] = q

Init ==
    /\ locks = [k \in LockKeys |-> NoKey]
    /\ queues = [q \in AllQueues |-> << >>]
    /\ images = [r \in Resources |->
                    [ ID |-> r, Name |-> "shot.png",
                      MinioPath |-> "screenshots/" \o r \o "-shot.png",
                      GroundTruth |-> IF r = "a" THEN "{\"k\":1}" ELSE NullJSON,
                      PredictedLabels |-> NullJSON, EvaluationScores |-> NullJSON,
                      CreatedAt |-> 0, UpdatedAt |-> 0 ]]
    /\ objects = [path \in {"screenshots/a-shot.png", "screenshots/b-shot.png"} |->
                    IF path = "screenshots/a-shot.png" THEN << 77, 97 >> ELSE << 255 >>]
    /\ calls = EmptyBag
    /\ hist = [r \in Resources |-> [age |-> CooldownTTL, window |-> 0, total |-> 0]]
    /\ nfaults = 0
    /\ conn = NotConnecting

(* ----------------------------- responses ------------------------------- *)
\* c.JSON(code, ...); return
Respond(c, code, msg) == [c EXCEPT !.pc = "done", !.status = code, !.body = msg]

RateLimitedMsg == "Rate limited. Please wait before retrying."

RespondRateLimited(c, ttl) ==
    [Respond(c, 429, RateLimitedMsg) EXCEPT !.retry = IntSeconds(ttl)]

(* ------------------------------ actions -------------------------------- *)
\* a round trip may return an error while the fault budget lasts
Fault(fail) ==
    /\ fail => nfaults < MaxFaults
    /\ nfaults' = IF fail THEN nfaults + 1 ELSE nfaults

\* the request as it is after a minute in which the cooldown of its id ran out
Lapse(c) ==
    IF c.id # "" /\ hist[c.id].age = CooldownTTL - 1
    THEN [c EXCEPT !.lapsed = TRUE] ELSE c

\* one minute passes
Tick ==
    /\ locks' = Expire(locks)
    /\ hist' = [r \in Resources |->
                    [hist[r] EXCEPT !.age = IF @ < CooldownTTL THEN @ + 1 ELSE @]]
    /\ calls' = IF \E c \in Calls : Lapse(c) # c THEN BagMap([c \in Calls |-> Lapse(c)], calls)
                 ELSE calls
    /\ UNCHANGED << queues, images, objects, nfaults, conn >>

\* GET /api/v1/images/:id/predict: uuid.Parse of the path parameter, then
\* ttl, err := RedisClient.TTL(ctx, lockKey).Result() and the fast reject
Request(idStr, fail) ==
    /\ BagCardinality(calls) < MaxCalls
    /\ Fault(fail /\ UUIDParse(idStr) # "")
    /\ fail => UUIDParse(idStr) # ""
    /\ LET id == UUIDParse(idStr)
           key == LockKey(id)
           ttl == IF fail THEN 0 ELSE RedisTTL(locks, key)
       IN  calls' = calls (+) One(
                IF id = "" THEN Respond(NewCall, 400, "Invalid ID format")
                ELSE LET c == [NewCall EXCEPT !.id = id, !.ttl = ttl,
                                    !.redisErr = fail,
                                    !.startFree = (locks[key] = NoKey),
                                    !.startOpen = (hist[id].age >= CooldownTTL)]
                     IN  IF ~fail /\ ttl > 0 THEN RespondRateLimited(c, ttl)
                         ELSE [c EXCEPT !.pc = "setnx"])
    /\ UNCHANGED << locks, queues, images, objects, hist, conn >>

\* mutant: read-compare-write, a request whose TTL read found no key goes on
\* whatever SetNX replied
AfterSetNXTrustTTL(c, ok, failed) ==
    IF failed THEN Respond(c, 500, "Redis error")
    ELSE IF ~ok /\ c.ttl > 0 THEN [c EXCEPT !.pc = "ttl2"]
    ELSE [c EXCEPT !.pc = "getimage"]

\* mutant: the error of SetNX is dropped like that of the TTL re-read
AfterSetNXErrDropped(c, ok, failed) ==
    IF ~ok /\ ~failed THEN [c EXCEPT !.pc = "ttl2"]
    ELSE [c EXCEPT !.pc = "getimage"]

\* mutant: the key is taken for a mutex, a request that finds it set tries
\* again until it gets it
AfterSetNXWait(c, ok, failed) ==
    IF failed THEN Respond(c, 500, "Redis error")
    ELSE IF ~ok THEN [c EXCEPT !.pc = "setnx"]
    ELSE [c EXCEPT !.pc = "getimage"]

\* mutant: an error of SetNX is taken for a lost race and answered 429
AfterSetNXErrRateLimited(c, ok, failed) ==
    IF failed THEN RespondRateLimited(c, 0)
    ELSE IF ~ok THEN [c EXCEPT !.pc = "ttl2"]
    ELSE [c EXCEPT !.pc = "getimage"]

\* after SetNX: err != nil answers 500, !ok takes the lost-race path, and
\* only ok lets the handler go on to the image lookup
AfterSetNX(c, ok, failed) ==
    IF failed THEN Respond(c, 500, "Redis error")
    ELSE IF ~ok THEN [c EXCEPT !.pc = "ttl2"]
    ELSE [c EXCEPT !.pc = "getimage"]

\* ok, err := RedisClient.SetNX(ctx, lockKey, "1", 5*time.Minute).Result()
SetNX(c, fail) ==
    /\ c.pc = "setnx"
    /\ Fault(fail)
    /\ LET key == LockKey(c.id)
           ok == ~fail /\ SetNXReply(locks, key)
           after == IF fail THEN locks ELSE SetNXStore(locks, key, "1", CooldownTTL)
           c1 == [c EXCEPT !.ok = ok, !.redisErr = c.redisErr \/ fail,
                           !.got = IF ok THEN after[key].ttl ELSE 0]
           c2 == AfterSetNX(c1, ok, fail)
           Outrun(o) == IF ok /\ o.id = c.id /\ o.pc = "setnx"
                        THEN [o EXCEPT !.raced = TRUE] ELSE o
       IN  /\ locks' = after
           /\ calls' = IF ok THEN BagMap([o \in Calls |-> Outrun(o)], calls (-) One(c))
                                     (+) One(c2)
                       ELSE Moved(calls, c, c2)
           /\ hist' = IF ~ok THEN hist
                      ELSE [hist EXCEPT ![c.id] =
                              [age |-> 0,
                               window |-> IF @.age >= CooldownTTL THEN 1 ELSE @.window + 1,
                               total |-> @.total + 1]]
    /\ UNCHANGED << queues, images, objects, conn >>

\* lost race: ttl, _ := RedisClient.TTL(ctx, lockKey).Result(); 429
ReadTTLAgain(c, fail) ==
    /\ c.pc = "ttl2"
    /\ Fault(fail)
    /\ LET ttl == IF fail THEN 0 ELSE RedisTTL(locks, LockKey(c.id))
           c1 == [c EXCEPT !.ttl = ttl, !.redisErr = c.redisErr \/ fail]
       IN  calls' = Moved(calls, c, RespondRateLimited(c1, ttl))
    /\ UNCHANGED << locks, queues, images, objects, hist, conn >>

\* mutant: the error of the lookup is not looked at
AfterGetImageErrDropped(c, found, image) ==
    [c EXCEPT !.pc = "getobject", !.image = image]

\* after GetImageByID: err != nil answers 404, otherwise the handler goes on
\* to the object store with the record it got
AfterGetImage(c, found, image) ==
    IF ~found THEN Respond(c, 404, "Image not found")
    ELSE [c EXCEPT !.pc = "getobject", !.image = image]

\* image, err := h.imageUseCase.GetImageByID(ctx, id)
GetImage(c, fail) ==
    /\ c.pc = "getimage"
    /\ Fault(fail)
    /\ LET found == ~fail /\ images[c.id] # NoImage
       IN  calls' = Moved(calls, c,
                AfterGetImage(c, found, IF found THEN images[c.id] ELSE NoImage))
    /\ UNCHANGED << locks, queues, images, objects, hist, conn >>

\* obj, err := minioClient.GetClient().GetObject(ctx, bucket, image.MinioPath, ...)
GetObject(c, fail) ==
    /\ c.pc = "getobject"
    /\ Fault(fail)
    /\ LET c1 == [c EXCEPT !.fetched = TRUE, !.fetchErr = fail]
       IN  calls' = Moved(calls, c,
                IF fail THEN Respond(c1, 500, "Failed to get image from MinIO")
                ELSE [c1 EXCEPT !.pc = "readall"])
    /\ UNCHANGED << locks, queues, images, objects, hist, conn >>

\* mutant: the return after the failed read is missing
AfterReadAllNoReturn(c, failed, bytes) ==
    [c EXCEPT !.pc = "rpush", !.imgBytes = bytes,
              !.payloadJSON = Marshal(c.image.ID, Base64(IF failed THEN << >> ELSE bytes))]

\* after io.ReadAll: an error answers 500; otherwise base64, payload and
\* json.Marshal, and the handler goes on to the pushes
AfterReadAll(c, failed, bytes) ==
    IF failed THEN Respond(c, 500, "Failed to read image data")
    ELSE [c EXCEPT !.pc = "rpush", !.imgBytes = bytes,
                   !.payloadJSON = Marshal(c.image.ID, Base64(bytes))]

\* imgBytes, err := io.ReadAll(obj); base64; payload; json.Marshal
ReadAll(c, fail) ==
    /\ c.pc = "readall"
    /\ Fault(fail)
    /\ LET present == ~fail /\ c.image.MinioPath \in DOMAIN objects
       IN  calls' = Moved(calls, c,
                [AfterReadAll(c, ~present,
                              IF present THEN objects[c.image.MinioPath] ELSE NoBytes)
                    EXCEPT !.fetchErr = ~present])
    /\ UNCHANGED << locks, queues, images, objects, hist, conn >>

\* mutant: the pushes go out in the opposite order
NextQueueReversed(c) == ModelQueues[Len(ModelQueues) - Cardinality(c.attempted)]

\* the queue the request pushes to next
NextQueue(c) == ModelQueues[Cardinality(c.attempted) + 1]

\* mutant: the push is issued again after it went through
RPushListsRetried(qs, q, payload, failed) ==
    IF failed THEN qs ELSE [qs EXCEPT ![q] = Append(Append(qs[q], payload), payload)]

\* RPUSH queue payload: the lists afterwards (an error leaves them as they were)
RPushLists(qs, q, payload, failed) ==
    IF failed THEN qs ELSE [qs EXCEPT ![q] = Append(qs[q], payload)]

\* mutant: a failed push ends the request at once
AfterRPushAbort(c, q, failed) ==
    LET c1 == [c EXCEPT !.attempted = c.attempted \cup {q},
                        !.pushed = IF failed THEN c.pushed ELSE c.pushed \cup {q}]
    IN  IF failed THEN Respond(c1, 500, "Failed to push to queue")
        ELSE IF QueueIndex(q) < Len(ModelQueues) THEN c1
        ELSE Respond(c1, 200, "Image pushed to model queues")

\* after RedisClient.RPush(ctx, queue, payloadJSON): the result is not
\* inspected; after the third push the handler answers 200
AfterRPush(c, q, failed) ==
    LET c1 == [c EXCEPT !.attempted = c.attempted \cup {q},
                        !.pushed = IF failed THEN c.pushed ELSE c.pushed \cup {q}]
    IN  IF QueueIndex(q) < Len(ModelQueues) THEN c1
        ELSE Respond(c1, 200, "Image pushed to model queues")

\* RedisClient.RPush(ctx, redis.QueueGPT / QueueClaude / QueueGemini, payloadJSON)
RPush(c, fail) ==
    /\ c.pc = "rpush"
    /\ Fault(fail)
    /\ LET q == NextQueue(c)
       IN  /\ queues' = RPushLists(queues, q, c.payloadJSON, fail)
           /\ calls' = Moved(calls, c, AfterRPush(c, q, fail))
    /\ UNCHANGED << locks, images, objects, hist, conn >>

Next ==
    \/ Tick
    \/ \E s \in IdStrings, fail \in BOOLEAN : Request(s, fail)
    \/ \E c \in Calls, fail \in BOOLEAN : SetNX(c, fail)
    \/ \E c \in Calls, fail \in BOOLEAN : ReadTTLAgain(c, fail)
    \/ \E c \in Calls, fail \in BOOLEAN : GetImage(c, fail)
    \/ \E c \in Calls, fail \in BOOLEAN : GetObject(c, fail)
    \/ \E c \in Calls, fail \in BOOLEAN : ReadAll(c, fail)
    \/ \E c \in Calls, fail \in BOOLEAN : RPush(c, fail)

Spec == Init /\ [][Next]_vars

\* a round trip of request c returns and its goroutine takes the next step
Proceed(c, fail) ==
    \/ SetNX(c, fail) \/ ReadTTLAgain(c, fail) \/ GetImage(c, fail)
    \/ GetObject(c, fail) \/ ReadAll(c, fail) \/ RPush(c, fail)

\* round trips return (a result, an error or a timeout) and goroutines are
\* scheduled: while some request has a step to take, a step is taken;
\* nothing is assumed of arrivals or of the passing of time
Fairness == WF_vars(\E c \in Calls, fail \in BOOLEAN : Proceed(c, fail))

\* the same handler; every round trip after the first TTL read (whose error
\* only sends the handler on to SetNX) may return an error or time out
NextLive ==
    \/ Tick
    \/ \E s \in IdStrings : Request(s, FALSE)
    \/ \E c \in Calls, fail \in BOOLEAN : SetNX(c, fail)
    \/ \E c \in Calls, fail \in BOOLEAN : ReadTTLAgain(c, fail)
    \/ \E c \in Calls, fail \in BOOLEAN : GetImage(c, fail)
    \/ \E c \in Calls, fail \in BOOLEAN : GetObject(c, fail)
    \/ \E c \in Calls, fail \in BOOLEAN : ReadAll(c, fail)
    \/ \E c \in Calls, fail \in BOOLEAN : RPush(c, fail)

SpecLive == Init /\ [][NextLive]_vars /\ Fairness

\* path parameters of requests for both images
IdStringsTwo == {"a", "b"}

\* the same handler, with requests arriving for either image; the round
\* trips are answered, except the TTL re-read of the lost-race path, whose
\* error the handler does not look at
NextTwo ==
    \/ Tick
    \/ \E s \in IdStringsTwo : Request(s, FALSE)
    \/ \E c \in Calls : SetNX(c, FALSE)
    \/ \E c \in Calls, fail \in BOOLEAN : ReadTTLAgain(c, fail)
    \/ \E c \in Calls : GetImage(c, FALSE)
    \/ \E c \in Calls : GetObject(c, FALSE)
    \/ \E c \in Calls : ReadAll(c, FALSE)
    \/ \E c \in Calls : RPush(c, FALSE)

SpecTwo == Init /\ [][NextTwo]_vars

(* ------------------------- shorthand for claims ------------------------ *)
\* the request has an outcome at the cooldown gate (passed or answered)
GateDone(c) == c.id # "" /\ c.pc \notin {"setnx", "ttl2"}

RateLimited(c) == c.pc = "done" /\ c.status = 429

FetchFailed(c) ==
    /\ c.pc = "done" /\ c.status = 500
    /\ c.body \in {"Failed to get image from MinIO", "Failed to read image data"}

\* the elements of a list
Range(seq) == {seq[i] : i \in 1..Len(seq)}

ModelQueueSet == Range(ModelQueues)

\* the cooldown key of id is as the last successful SetNX left it, for as long
\* as the cooldown time has not run out
LockHeld(id) ==
    hist[id].age < CooldownTTL =>
        /\ locks[LockKey(id)] # NoKey
        /\ locks[LockKey(id)].val = "1"
        /\ locks[LockKey(id)].ttl = CooldownTTL - hist[id].age

\* the records that a step removes from, and adds to, the bag of requests
Lost == {c \in Calls : CopiesIn(c, calls) > CopiesIn(c, calls')}
Gained == {c \in BagToSet(calls') : CopiesIn(c, calls') > CopiesIn(c, calls)}

\* a step that takes a request from c to c1 (the passing of time moves no
\* request on, it only marks requests as lapsed)
StepOf(c, c1) ==
    /\ c \in Lost /\ c1 \in Gained
    /\ c1.id = c.id /\ c1.lapsed = c.lapsed
    /\ c1.pc # c.pc \/ c1.attempted # c.attempted

(* ------------------------------- claims -------------------------------- *)
\* C1: of N >= 2 requests for the same resource that all found no lock and
\* ran their gate steps (TTL read, SetNX) interleaved in any order within one
\* cooldown period, exactly one passes the gate and each of the others is
\* answered 429.
C1_ExactlyOneWinner ==
    \A R \in Resources :
        LET B == {c \in Calls : c.id = R /\ c.startFree} IN
        ( /\ SumCopies(B, calls) >= 2
          /\ \A c \in B : GateDone(c) /\ ~c.redisErr /\ ~c.lapsed )
        => /\ SumCopies({c \in B : c.ok}, calls) = 1
           /\ \A c \in B : ~c.ok => RateLimited(c)

C1_Witness ==
    \E c, d \in Calls :
        /\ c.id # "" /\ c.id = d.id
        /\ c.startFree /\ d.startFree
        /\ ~c.redisErr /\ ~d.redisErr /\ ~c.lapsed /\ ~d.lapsed
        /\ c.ok /\ c.pc = "done" /\ c.status = 200
        /\ RateLimited(d)

\* C2: for every resource, two requests that pass the gate are separated by
\* a full cooldown period: within one period at most one SetNX succeeds, on
\* whatever instance.
C2_OneAcquisitionPerWindow ==
    \A R \in Resources : hist[R].window <= 1

C2_Witness ==
    \E R \in Resources : hist[R].total >= 2 /\ hist[R].window = 1

\* C3: a request that arrives while a cooldown is in force (less than the TTL
\* has passed since a SetNX for its resource succeeded) and whose lock-store
\* round trip is answered is rejected with 429; it looks up no image, fetches
\* nothing and pushes nothing.
C3_RejectedDuringCooldown ==
    \A c \in Calls :
        (c.id # "" /\ ~c.startOpen /\ ~c.redisErr)
        => /\ RateLimited(c)
           /\ ~c.ok /\ c.image = NoImage /\ ~c.fetched
           /\ c.attempted = {} /\ c.payloadJSON = NoPayload

\* a request answered 200 after three pushes, and a later one rejected
C3_Witness ==
    \E c, d \in Calls :
        /\ c.pc = "done" /\ c.status = 200 /\ c.pushed = ModelQueueSet
        /\ d.id = c.id /\ ~d.startOpen /\ ~d.redisErr
        /\ RateLimited(d) /\ d.retry > 0

\* C4: a request that arrives once the cooldown of its resource has run out,
\* with no other request taking the lock before it and its lock-store round
\* trips answered, passes the gate, sets the key with the full TTL and goes
\* on to the image lookup, the fetch and a push to every queue.
C4_PassesAfterExpiry ==
    \A c \in Calls :
        (GateDone(c) /\ c.startOpen /\ ~c.raced /\ ~c.redisErr)
        => /\ c.ok /\ c.got = CooldownTTL
           /\ c.pc = "done" =>
                \/ c.status = 404 /\ ~c.fetched
                \/ FetchFailed(c) /\ c.fetched
                \/ c.status = 200 /\ c.fetched /\ c.attempted = ModelQueueSet

C4_Witness ==
    \E c \in Calls :
        /\ c.id # "" /\ hist[c.id].total >= 2
        /\ c.startOpen /\ ~c.raced /\ ~c.redisErr
        /\ c.ok /\ c.pc = "done" /\ c.status = 200
        /\ Len(queues[QueueGPT]) >= 2

\* C5: every 429 answer carries retry_after_seconds > 0, equal to the
\* remaining TTL of the lock that the request read.
C5_RetryAfterPositive ==
    \A c \in Calls :
        RateLimited(c) =>
            /\ c.retry > 0
            /\ c.ttl > 0 /\ c.retry = IntSeconds(c.ttl)

\* a step of a request that belongs to a rejection: its arrival, a SetNX that
\* found the key present, or the answer 429
RejectStep ==
    \/ BagCardinality(calls') > BagCardinality(calls)
    \/ \E c \in Lost, c1 \in Gained :
        /\ StepOf(c, c1)
        /\ c1.pc = "ttl2" \/ c1.status = 429

\* C6: a request that ends with 429 changes nothing: none of its steps
\* touches the lock (value and remaining TTL stay), a queue, the image
\* records or the objects, and it has looked up no image, fetched no object
\* and built no payload.
C6_RejectedChangesNothing ==
    /\ [][RejectStep =>
            /\ locks' = locks /\ queues' = queues
            /\ images' = images /\ objects' = objects]_vars
    /\ [](\A c \in Calls : RateLimited(c) =>
            /\ ~c.ok /\ c.image = NoImage /\ ~c.fetched
            /\ c.imgBytes = NoBytes /\ c.payloadJSON = NoPayload
            /\ c.attempted = {} /\ c.pushed = {})

\* a request rejected after losing the SetNX race, with the winner's lock
\* already partly run down
C6_Witness ==
    \E c \in Calls :
        /\ RateLimited(c) /\ c.startFree /\ ~c.redisErr
        /\ locks[LockKey(c.id)] # NoKey
        /\ locks[LockKey(c.id)].ttl < CooldownTTL

\* C7: a request of which exactly one of the three pushes failed does not
\* answer with the success message.
C7_PartialFailureReported ==
    \A c \in Calls :
        (c.pc = "done" /\ c.attempted = ModelQueueSet
            /\ Cardinality(c.attempted \ c.pushed) = 1)
        => c.status # 200

\* C8: a request that answers 200 "Image pushed to model queues" has appended
\* its payload to each of the three model queues.
C8_SuccessMeansAllQueues ==
    \A c \in Calls :
        (c.pc = "done" /\ c.status = 200) => c.pushed = ModelQueueSet

\* C9: a request whose object fetch fails (GetObject or the read of the body)
\* answers 500 with the fetch error, has pushed to no queue, and leaves the
\* cooldown key it set in place with the TTL still running.
C9_FetchFailureKeepsLock ==
    \A c \in Calls :
        /\ FetchFailed(c) => c.fetchErr
        /\ c.fetchErr =>
            /\ FetchFailed(c)
            /\ c.ok /\ c.attempted = {} /\ c.pushed = {}
            /\ c.payloadJSON = NoPayload
            /\ LockHeld(c.id)
            /\ ~c.lapsed => RedisTTL(locks, LockKey(c.id)) > 0

C9_Witness ==
    \E c \in Calls :
        /\ FetchFailed(c) /\ c.body = "Failed to read image data"
        /\ RedisTTL(locks, LockKey(c.id)) > 0
        /\ queues[QueueGPT] = << >>

\* C10: every push of a request leaves the lock and the other queues alone
\* and either appends the payload to its queue or leaves it as it was; after
\* a failed push the request still goes on to the remaining queues; at the
\* end each queue whose push succeeded holds the payload and the cooldown key
\* is still in place.
C10_NoRollbackOnPartialFailure ==
    /\ [][\A c \in Lost, c1 \in Gained : (StepOf(c, c1) /\ c.pc = "rpush") =>
            LET q == NextQueue(c) IN
            /\ locks' = locks
            /\ \A o \in AllQueues \ {q} : queues'[o] = queues[o]
            /\ \/ queues'[q] = queues[q]
               \/ queues'[q] = Append(queues[q], c.payloadJSON)
            /\ q \in c1.pushed => queues'[q] = Append(queues[q], c.payloadJSON)
            /\ c1.attempted = c.attempted \cup {q}
            /\ c.pushed \subseteq c1.pushed
            /\ QueueIndex(q) < Len(ModelQueues) => c1.pc = "rpush"]_vars
    /\ [](\A c \in Calls :
            (c.pc = "done" /\ c.attempted # {}) =>
                /\ c.attempted = ModelQueueSet
                /\ \A q \in c.pushed : c.payloadJSON \in Range(queues[q])
                /\ LockHeld(c.id))

\* the second push failed, the first and the third hold the payload
C10_Witness ==
    \E c \in Calls :
        /\ c.pc = "done"
        /\ c.pushed = {QueueGPT, QueueGemini}
        /\ c.attempted = ModelQueueSet
        /\ c.payloadJSON \in Range(queues[QueueGPT])
        /\ c.payloadJSON \in Range(queues[QueueGemini])
        /\ queues[QueueClaude] = << >>
        /\ RedisTTL(locks, LockKey(c.id)) > 0

\* a step taken by a request (its arrival or one of its round trips), as
\* opposed to the passing of time
RequestStep ==
    \/ BagCardinality(calls') > BagCardinality(calls)
    \/ \E c \in Lost, c1 \in Gained : StepOf(c, c1)

\* C11: no step of a request deletes a cooldown key or changes its remaining
\* TTL: a key that exists is left exactly as it is by every step of every
\* request, so that from the SetNX that created it until its expiry the key
\* is present with TTL = 5 minutes minus the time passed, whatever the
\* outcome of the request that created it (200, 404, fetch failure, failed
\* push, an error of any round trip such as a cancelled context).
C11_LockNeverReleased ==
    /\ [][RequestStep =>
            \A k \in LockKeys : locks[k] # NoKey => locks'[k] = locks[k]]_vars
    /\ [](\A R \in Resources : LockHeld(R))

\* the request that created the key ended with 404 and, minutes later, the
\* key is still there
C11_Witness ==
    \E c \in Calls :
        /\ c.ok /\ c.pc = "done" /\ c.status = 404
        /\ locks[LockKey(c.id)] # NoKey
        /\ locks[LockKey(c.id)].ttl = CooldownTTL - 2

\* the request has gone past the cooldown gate: it is at, or has done, the
\* image lookup, the fetch or a push
Dispatching(c) ==
    \/ c.pc \in {"getimage", "getobject", "readall", "rpush"}
    \/ c.image # NoImage \/ c.fetched \/ c.imgBytes # NoBytes
    \/ c.payloadJSON # NoPayload \/ c.attempted # {}
    \/ c.pc = "done" /\ c.status \in {200, 404}
    \/ FetchFailed(c)

\* C12: a request goes on to the image lookup, the fetch and the pushes only
\* if its own SetNX replied true, whatever its TTL read returned (no key, a
\* non-positive value or an error); and of the requests for one resource that
\* ran inside one cooldown period at most one has gone past the gate.
C12_SetNXDecides ==
    /\ \A c \in Calls : Dispatching(c) => c.ok /\ c.got = CooldownTTL
    /\ \A R \in Resources :
        SumCopies({c \in Calls : c.id = R /\ Dispatching(c) /\ ~c.lapsed}, calls) <= 1

\* two requests read "no key" before either set it; one went through all
\* pushes, the other was stopped by its SetNX
C12_Witness ==
    \E c, d \in Calls :
        /\ c.id = d.id /\ c.startFree /\ d.startFree
        /\ c.ttl = -2 /\ d.ttl = -2
        /\ ~c.lapsed /\ ~d.lapsed
        /\ c.ok /\ c.attempted = ModelQueueSet
        /\ ~d.ok /\ d.pc = "done" /\ ~Dispatching(d)

\* the "id" member of a marshalled payload
PayloadID(payload) == payload[2]

\* number of payloads for resource R in queue q
PayloadsFor(R, q) ==
    Cardinality({i \in 1..Len(queues[q]) : PayloadID(queues[q][i]) = R})

\* C13: a request whose SetNX did not reply true pushes nothing, a request
\* that passed the gate pushes at most once to each queue and never again,
\* so that each queue holds, for each resource, exactly as many payloads as
\* there are requests whose push to it went through, and never more than
\* there were successful SetNX calls for the resource.
C13_AppendsBoundedByAcquisitions ==
    /\ \A c \in Calls : ~c.ok => c.attempted = {} /\ c.pushed = {}
    /\ \A c \in Calls : c.pushed \subseteq c.attempted
    /\ \A R \in Resources, q \in ModelQueueSet :
        /\ PayloadsFor(R, q) = SumCopies({c \in Calls : c.id = R /\ q \in c.pushed}, calls)
        /\ PayloadsFor(R, q) <= hist[R].total
    /\ \A R \in Resources :
        SumCopies({c \in Calls : c.id = R /\ c.ok}, calls) = hist[R].total

\* one acquisition, one payload in each queue, and a request that lost
C13_Witness ==
    \E R \in Resources :
        /\ hist[R].total = 1
        /\ \A q \in ModelQueueSet : PayloadsFor(R, q) = 1
        /\ \E d \in Calls : d.id = R /\ ~d.ok /\ d.pc = "done" /\ d.status = 429

\* the queues that come before q in the push order
Earlier(q) == {o \in ModelQueueSet : QueueIndex(o) < QueueIndex(q)}

\* C14: a request serializes its payload once (id and base64 of the bytes it
\* read) and pushes these same bytes to the GPT, then the Claude, then the
\* Gemini queue: at every point the queues it has pushed to are a prefix of
\* that order, a queue holds its payload only if a push to every earlier queue
\* has been issued, each push appends the one serialized value, and the value
\* does not change between pushes.
C14_FixedOrderSamePayload ==
    /\ [](\A c \in Calls :
            /\ \A q \in c.attempted : Earlier(q) \subseteq c.attempted
            /\ \A q \in c.pushed :
                /\ Earlier(q) \subseteq c.attempted
                /\ c.payloadJSON \in Range(queues[q])
            /\ c.pc = "rpush" => NextQueue(c) \notin c.attempted
            /\ c.payloadJSON # NoPayload =>
                c.payloadJSON = Marshal(c.id, Base64(objects[images[c.id].MinioPath])))
    /\ [][\A c \in Lost, c1 \in Gained : (StepOf(c, c1) /\ c.pc = "rpush") =>
            /\ c1.payloadJSON = c.payloadJSON
            /\ \A q \in AllQueues :
                \/ queues'[q] = queues[q]
                \/ /\ Earlier(q) = c.attempted
                   /\ queues'[q] = Append(queues[q],
                            Marshal(c.id, Base64(objects[images[c.id].MinioPath])))]_vars

\* between the second and the third push: the first push failed, the Claude
\* queue holds the payload and the Gemini queue does not yet
C14_Witness ==
    \E c \in Calls :
        /\ c.pc = "rpush"
        /\ c.attempted = {QueueGPT, QueueClaude} /\ c.pushed = {QueueClaude}
        /\ queues[QueueClaude] = << c.payloadJSON >>
        /\ queues[QueueGPT] = << >> /\ queues[QueueGemini] = << >>
        /\ c.payloadJSON = << "id", "a", "image_base64", << 19, 22, 4, 64 >> >>

\* C15: requests for different images do not touch each other's cooldown:
\* "predict-lock:" + id gives different keys for different ids, every
\* spelling of one UUID gives the key of that UUID, a step of a request for
\* R1 leaves the key of every R2 # R1 as it is, the TTL a request reads is
\* that of its own key, and a request is answered 429 only when a SetNX for
\* its own id had set the key, never because the key of another id exists.
C15_ResourcesIndependent ==
    /\ [](/\ \A r1, r2 \in Resources : LockKey(r1) = LockKey(r2) => r1 = r2
          /\ \A s1, s2 \in IdStringsTwo \cup IdStrings :
                (UUIDParse(s1) # "" /\ UUIDParse(s2) # "") =>
                    (LockKey(UUIDParse(s1)) = LockKey(UUIDParse(s2))
                        <=> UUIDParse(s1) = UUIDParse(s2))
          /\ \A c \in Calls : RateLimited(c) =>
                /\ hist[c.id].total >= 1
                /\ ~c.startOpen \/ c.raced
          /\ \A c \in Calls :
                (c.id # "" /\ c.startOpen /\ ~c.raced /\ c.pc # "setnx") => c.ok)
    /\ [][/\ \A c \in Lost, c1 \in Gained : StepOf(c, c1) =>
                \A R2 \in Resources \ {c.id} :
                    /\ locks'[LockKey(R2)] = locks[LockKey(R2)]
                    /\ hist'[R2] = hist[R2]
          /\ \A c1 \in Gained : BagCardinality(calls') > BagCardinality(calls) =>
                /\ locks' = locks
                /\ c1.id # "" => /\ c1.ttl = RedisTTL(locks, LockKey(c1.id))
                                 /\ c1.startFree = (locks[LockKey(c1.id)] = NoKey)]_vars

\* a request for one image passed the gate while the key of the other image
\* was in place: both keys exist, with different remaining times
C15_Witness ==
    \E c, d \in Calls :
        /\ c.id = "a" /\ d.id = "b"
        /\ c.ok /\ d.ok /\ d.startOpen /\ c.pc = "done" /\ d.pc = "done"
        /\ locks[LockKey("a")] # NoKey /\ locks[LockKey("b")] # NoKey
        /\ locks[LockKey("a")].ttl < locks[LockKey("b")].ttl

\* the answers of PredictImage to a well-formed id
Success(c) ==
    c.pc = "done" /\ c.status = 200 /\ c.body = "Image pushed to model queues"

NotFound(c) == c.pc = "done" /\ c.status = 404 /\ c.body = "Image not found"

RedisError(c) == c.pc = "done" /\ c.status = 500 /\ c.body = "Redis error"

\* an answer other than success after a push that did not go through
PartialFailureReported(c) ==
    c.pc = "done" /\ c.status # 200 /\ c.attempted # {} /\ c.pushed # c.attempted

\* C16 (as claimed): every request with a well-formed id ends in one of four
\* outcomes: success, RateLimited, ResourceFetchFailed or
\* PartialDispatchFailure.
C16_FourOutcomes ==
    \A c \in Calls :
        (c.pc = "done" /\ c.id # "") =>
            \/ Success(c) \/ RateLimited(c) \/ FetchFailed(c)
            \/ PartialFailureReported(c)

\* C16 (amended): every request with a well-formed id ends in exactly one of
\* the four outcomes or of two more: 404 "Image not found" when the lookup of
\* the image record fails after the key was set, and 500 "Redis error" when
\* SetNX returns an error; each answer goes with its cause.
C16_SixOutcomes ==
    \A c \in Calls :
        (c.pc = "done" /\ c.id # "") =>
            /\ Cardinality({o \in {"success", "ratelimited", "fetchfailed",
                                   "partial", "notfound", "rediserror"} :
                    \/ o = "success" /\ Success(c)
                    \/ o = "ratelimited" /\ RateLimited(c) /\ c.body = RateLimitedMsg
                    \/ o = "fetchfailed" /\ FetchFailed(c)
                    \/ o = "partial" /\ PartialFailureReported(c)
                    \/ o = "notfound" /\ NotFound(c)
                    \/ o = "rediserror" /\ RedisError(c)}) = 1
            /\ Success(c) => c.ok /\ c.attempted = ModelQueueSet
            /\ RateLimited(c) => ~c.ok /\ c.retry >= 0
            /\ FetchFailed(c) => c.ok /\ c.fetched /\ c.attempted = {}
            /\ NotFound(c) => c.ok /\ c.image = NoImage /\ ~c.fetched
            /\ RedisError(c) => ~c.ok /\ c.redisErr /\ ~Dispatching(c)

\* SetNX returned an error and the request was answered 500 "Redis error"
C16_Witness ==
    \E c \in Calls :
        /\ c.id # "" /\ RedisError(c)
        /\ c.ttl = -2 /\ c.startFree /\ locks[LockKey(c.id)] = NoKey

\* the cooldown keys that exist for resource R
LocksOf(R) == {k \in DOMAIN locks : k = LockKey(R) /\ locks[k] # NoKey}

\* C17 (as claimed): for every resource at most one lock exists, and if one
\* exists then a payload for the resource was pushed to the queues within the
\* current cooldown period.
C17_LockImpliesPublished ==
    \A R \in Resources :
        /\ Cardinality(LocksOf(R)) <= 1
        /\ LocksOf(R) # {} =>
            /\ hist[R].window = 1 /\ hist[R].age < CooldownTTL
            /\ \E c \in Calls : c.id = R /\ c.ok /\ c.pushed # {}

\* C17 (amended): for every resource at most one lock exists, and if one
\* exists then exactly one SetNX for the resource succeeded within the
\* current cooldown period, less than the TTL ago, by a request that passed
\* the gate; that request may not have pushed anything, or not yet.
C17_LockImpliesAcquisition ==
    \A R \in Resources :
        /\ Cardinality(LocksOf(R)) <= 1
        /\ LocksOf(R) # {} =>
            /\ hist[R].window = 1 /\ hist[R].age < CooldownTTL
            /\ locks[LockKey(R)] = [val |-> "1", ttl |-> CooldownTTL - hist[R].age]
            /\ \E c \in Calls : c.id = R /\ c.ok /\ c.got = CooldownTTL
            /\ SumCopies({c \in Calls : c.id = R /\ c.ok /\ ~c.lapsed}, calls) <= 1

\* the key exists, set minutes ago by a request whose fetch failed: nothing
\* was pushed
C17_Witness ==
    \E c \in Calls :
        /\ c.ok /\ FetchFailed(c) /\ ~c.lapsed
        /\ LocksOf(c.id) = {LockKey(c.id)}
        /\ locks[LockKey(c.id)].ttl < CooldownTTL
        /\ \A q \in AllQueues : queues[q] = << >>

\* C18: every request is answered: with every round trip returning (a
\* result, an error or a timeout, which the handler gets as an error), from
\* any state with a request under way a state is reached in which every
\* request has its response.
C18_EveryCallReturns ==
    (\E c \in Calls : c.pc # "done") ~> (\A c \in Calls : c.pc = "done")

\* all requests of a behaviour are answered, one of them after GetObject
\* returned an error
C18_Witness ==
    /\ BagCardinality(calls) = MaxCalls
    /\ \A c \in Calls : c.pc = "done" /\ c.status \in {200, 400, 404, 429, 500}
    /\ \E c \in Calls : c.fetchErr /\ c.body = "Failed to get image from MinIO"

(* --------------------------- image upload ------------------------------ *)
\* ImageHandler.UploadImage and ImageUseCaseImpl.UploadImage.  The requests
\* are records in the bag calls; objects and images are the stores.

\* the size limit of the handler, in bytes
MaxUploadSize == 10 * 1024 * 1024

\* c.FormFile("image") returned an error
NoFile == [Filename |-> "", ContentType |-> "", Size |-> -1, Content |-> << >>]

\* file parts: name, Content-Type header, size in bytes, and a short byte
\* sequence that stands for the content
Files ==
    [ Filename : {"x.png"},
      ContentType : {"image/png", "Image/png", "text/plain"},
      Size : {1, MaxUploadSize, MaxUploadSize + 1},
      Content : {<< 137, 80 >>} ]

\* values of the form field ground_truth ("" also when the field is absent)
GroundTruths == {"", "{}", "{\"k\": 1}", "null", "[1]", "{bad"}

\* strings.HasPrefix
HasPrefix(s, prefix) ==
    Len(s) >= Len(prefix) /\ SubSeq(s, 1, Len(prefix)) = prefix

\* json.Unmarshal([]byte(s), &groundTruth) with groundTruth a map[string]any:
\* TRUE iff it returns an error (a syntax error, or a value that is neither
\* an object nor null)
UnmarshalMapErr(s) ==
    CASE s = "{}" -> FALSE
      [] s = "{\"k\": 1}" -> FALSE
      [] s = "null" -> FALSE
      [] s = "[1]" -> TRUE
      [] OTHER -> TRUE

\* a map[string]any is a record: nil or not, and kv, its keys each followed
\* by its value; this is the nil map (member absent from the request, or
\* JSON null)
NilMap == [nil |-> TRUE, kv |-> << >>]

\* json.Unmarshal([]byte(s), &m) where it returns no error: the map m
UnmarshalMap(s) ==
    CASE s = "{}" -> [nil |-> FALSE, kv |-> << >>]
      [] s = "{\"k\": 1}" -> [nil |-> FALSE, kv |-> << "k", 1 >>]
      [] OTHER -> NilMap

\* json.Marshal of a map that is not nil: compact, no blank after the colon
MarshalMap(m) ==
    CASE m.kv = << >> -> "{}"
      [] m.kv = << "k", 1 >> -> "{\"k\":1}"
      [] m.kv = << "m", 2 >> -> "{\"m\":2}"

\* var j datatypes.JSON; if m != nil { j = datatypes.JSON(json.Marshal(m)) }
JSONOf(m) == IF m.nil THEN NullJSON ELSE MarshalMap(m)

\* mutant: the size check rejects a file of exactly the limit
UploadCheckAtLimit(file, groundTruthStr) ==
    IF file = NoFile THEN
        "No image file provided. Please include a file with field name 'image'"
    ELSE IF ~HasPrefix(file.ContentType, "image/") THEN
        "Invalid file type. Please upload an image file (PNG, JPG, JPEG, etc.)"
    ELSE IF file.Size >= MaxUploadSize THEN
        "File too large. Maximum size is 10MB"
    ELSE IF groundTruthStr # "" /\ UnmarshalMapErr(groundTruthStr) THEN
        "Invalid ground truth format. Please provide valid JSON"
    ELSE ""

\* the checks of the handler, in their order: the error of the 400 answer,
\* or "" when the request goes on to the use case
UploadCheck(file, groundTruthStr) ==
    IF file = NoFile THEN
        "No image file provided. Please include a file with field name 'image'"
    ELSE IF ~HasPrefix(file.ContentType, "image/") THEN
        "Invalid file type. Please upload an image file (PNG, JPG, JPEG, etc.)"
    ELSE IF file.Size > MaxUploadSize THEN
        "File too large. Maximum size is 10MB"
    ELSE IF groundTruthStr # "" /\ UnmarshalMapErr(groundTruthStr) THEN
        "Invalid ground truth format. Please provide valid JSON"
    ELSE ""

\* locals of one UploadImage invocation, followed by its history:
\*   put      PutObject stored the file
\*   created  imageRepo.Create inserted the record
NewUpload ==
    [ pc |-> "new", file |-> NoFile, groundTruthStr |-> "",
      uuidStr |-> "", filename |-> "", status |-> 0, body |-> "",
      put |-> FALSE, created |-> FALSE ]

\* uuid.New().String(): an id that no image and no earlier upload has
NewUUID == "u" \o ToString(BagCardinality(calls) + 1)

\* the request has written to the image records (and has read the clock for
\* it)
Wrote(c) ==
    \/ "created" \in DOMAIN c /\ c.created
    \/ "saved" \in DOMAIN c /\ c.saved

\* time.Now() of a write to the image records; the instants are numbered in
\* the order of the writes, the records of Init being written at 0
TimeNow == 1 + SumCopies({c \in Calls : Wrote(c)}, calls)

\* POST /api/v1/images: the checks of the handler, then uuid.New() and the
\* object name in the use case
UploadImage(file, groundTruthStr) ==
    /\ BagCardinality(calls) < MaxCalls
    /\ LET err == UploadCheck(file, groundTruthStr)
           u == [NewUpload EXCEPT !.file = file, !.groundTruthStr = groundTruthStr]
       IN  calls' = calls (+) One(
                IF err # "" THEN Respond(u, 400, err)
                ELSE [u EXCEPT !.pc = "putobject", !.uuidStr = NewUUID,
                               !.filename = "screenshots/" \o NewUUID \o "-" \o file.Filename])
    /\ UNCHANGED << locks, queues, images, objects, hist, nfaults, conn >>

\* file.Open() and minioClient.PutObject(ctx, bucket, filename, src, file.Size, ...)
PutObject(u, fail) ==
    /\ u.pc = "putobject"
    /\ Fault(fail)
    /\ objects' = IF fail THEN objects
                  ELSE [path \in DOMAIN objects \cup {u.filename} |->
                            IF path = u.filename THEN u.file.Content ELSE objects[path]]
    /\ calls' = Moved(calls, u,
            IF fail THEN Respond(u, 500, "Failed to upload image")
            ELSE [u EXCEPT !.pc = "create", !.put = TRUE])
    /\ UNCHANGED << locks, queues, images, hist, conn >>

\* imageRepo.Create(ctx, image)
Create(u, fail) ==
    /\ u.pc = "create"
    /\ Fault(fail)
    /\ images' = IF fail THEN images
                 ELSE [r \in DOMAIN images \cup {u.uuidStr} |->
                            IF r = u.uuidStr THEN
                                [ ID |-> u.uuidStr, Name |-> u.file.Filename,
                                  MinioPath |-> u.filename,
                                  GroundTruth |-> JSONOf(
                                    IF u.groundTruthStr = "" THEN NilMap
                                    ELSE UnmarshalMap(u.groundTruthStr)),
                                  PredictedLabels |-> NullJSON,
                                  EvaluationScores |-> NullJSON,
                                  CreatedAt |-> TimeNow, UpdatedAt |-> TimeNow ]
                            ELSE images[r]]
    /\ calls' = Moved(calls, u,
            IF fail THEN Respond(u, 500, "Failed to upload image")
            ELSE [u EXCEPT !.pc = "geturl", !.created = TRUE])
    /\ UNCHANGED << locks, queues, objects, hist, conn >>

\* imageUseCase.GetImageURL(ctx, image.MinioPath, time.Hour), then 201
GetImageURL(u, fail) ==
    /\ u.pc = "geturl"
    /\ Fault(fail)
    /\ calls' = Moved(calls, u,
            IF fail THEN Respond(u, 500, "Failed to generate image URL")
            ELSE Respond(u, 201, ""))
    /\ UNCHANGED << locks, queues, images, objects, hist, conn >>

NextUpload ==
    \/ \E file \in Files \cup {NoFile}, groundTruthStr \in GroundTruths :
            UploadImage(file, groundTruthStr)
    \/ \E u \in Calls, fail \in BOOLEAN : PutObject(u, fail)
    \/ \E u \in Calls, fail \in BOOLEAN : Create(u, fail)
    \/ \E u \in Calls, fail \in BOOLEAN : GetImageURL(u, fail)

SpecUpload == Init /\ [][NextUpload]_vars

\* the strings of GroundTruths that are JSON texts (RFC 8259)
ValidJSON(s) == s \in {"{}", "{\"k\": 1}", "null", "[1]"}

\* the stores as they are before any upload
InitialObjects == {"screenshots/a-shot.png", "screenshots/b-shot.png"}

\* C19: an upload whose file part has a Content-Type that does not start with
\* "image/", or a size above 10*1024*1024 bytes, or whose ground_truth field
\* is given (not empty) and is not valid JSON, is answered 400 and stores
\* nothing; a file of exactly 10*1024*1024 bytes passes the size check; the
\* objects and image records that exist beyond the initial ones are those of
\* uploads that passed every check.
C19_UploadValidatedBeforeStore ==
    /\ \A u \in Calls :
        LET invalid ==
                \/ ~HasPrefix(u.file.ContentType, "image/")
                \/ u.file.Size > 10 * 1024 * 1024
                \/ u.groundTruthStr # "" /\ ~ValidJSON(u.groundTruthStr)
        IN  /\ invalid =>
                /\ u.pc = "done" /\ u.status = 400
                /\ ~u.put /\ ~u.created
                /\ u.uuidStr = "" /\ u.filename = ""
            /\ ( /\ HasPrefix(u.file.ContentType, "image/")
                 /\ u.file.Size = 10 * 1024 * 1024
                 /\ u.groundTruthStr \in {"", "{}", "{\"k\": 1}"} )
               => u.status # 400 /\ u.uuidStr # ""
            /\ (u.put \/ u.created) => ~invalid /\ u.file # NoFile
    /\ DOMAIN objects = InitialObjects \cup {u.filename : u \in {v \in Calls : v.put}}
    /\ DOMAIN images = Resources \cup {u.uuidStr : u \in {v \in Calls : v.created}}

\* one upload of 10 MB + 1 byte answered 400, one of exactly 10 MB stored and
\* answered 201
C19_Witness ==
    \E u, v \in Calls :
        /\ u.file.ContentType = "image/png" /\ u.file.Size = 10 * 1024 * 1024 + 1
        /\ u.pc = "done" /\ u.status = 400
        /\ v.file.Size = 10 * 1024 * 1024 /\ v.groundTruthStr = "{\"k\": 1}"
        /\ v.pc = "done" /\ v.status = 201
        /\ Cardinality(DOMAIN objects) = 3 /\ Cardinality(DOMAIN images) = 3
        /\ objects[v.filename] = << 137, 80 >>

(* ------------------------- NewRedisConnection -------------------------- *)
\* the list element "__init__"
InitDummy == << "__init__" >>

\* queues := []string{QueueGPT, QueueClaude, QueueGemini, QueueResult}
InitQueues == << QueueGPT, QueueClaude, QueueGemini, QueueResult >>

\* LPOP: the list without its first element (an empty list stays empty)
RedisLPop(list) == IF list = << >> THEN << >> ELSE Tail(list)

\* an instance starts: redis.NewClient and Ping
Connect(fail) ==
    /\ conn.pc = "idle"
    /\ Fault(fail)
    /\ conn' = IF fail THEN [conn EXCEPT !.pc = "failed"]
               ELSE [pc |-> "rpush", i |-> 1]
    /\ UNCHANGED << locks, queues, images, objects, calls, hist >>

\* RedisClient.RPush(ctx, q, "__init__"); an error ends NewRedisConnection
InitRPush(fail) ==
    /\ conn.pc = "rpush"
    /\ Fault(fail)
    /\ queues' = RPushLists(queues, InitQueues[conn.i], InitDummy, fail)
    /\ conn' = [conn EXCEPT !.pc = IF fail THEN "failed" ELSE "lpop"]
    /\ UNCHANGED << locks, images, objects, calls, hist >>

\* RedisClient.LPop(ctx, q), result not inspected; then the next queue
InitLPop(fail) ==
    /\ conn.pc = "lpop"
    /\ Fault(fail)
    /\ queues' = IF fail THEN queues
                 ELSE [queues EXCEPT ![InitQueues[conn.i]] = RedisLPop(@)]
    /\ conn' = IF conn.i < Len(InitQueues) THEN [pc |-> "rpush", i |-> conn.i + 1]
               ELSE [conn EXCEPT !.pc = "ready"]
    /\ UNCHANGED << locks, images, objects, calls, hist >>

\* an instance starts while PredictImage requests (of instances that are up)
\* are served; the round trips of the requests are answered
NextStartup ==
    \/ \E fail \in BOOLEAN : Connect(fail)
    \/ \E fail \in BOOLEAN : InitRPush(fail)
    \/ \E fail \in BOOLEAN : InitLPop(fail)
    \/ \E s \in IdStringsTwo : Request(s, FALSE)
    \/ \E c \in Calls : SetNX(c, FALSE)
    \/ \E c \in Calls : ReadTTLAgain(c, FALSE)
    \/ \E c \in Calls : GetImage(c, FALSE)
    \/ \E c \in Calls : GetObject(c, FALSE)
    \/ \E c \in Calls : ReadAll(c, FALSE)
    \/ \E c \in Calls : RPush(c, FALSE)

SpecStartup == Init /\ [][NextStartup]_vars

\* C20: when NewRedisConnection has run, the queues are as they would be
\* without it: no queue holds an "__init__" entry and every payload that a
\* request pushed is still in its queue (nothing consumes in this model).
C20_StartupKeepsQueues ==
    conn.pc = "ready" =>
        /\ \A q \in AllQueues : InitDummy \notin Range(queues[q])
        /\ \A c \in Calls : \A q \in c.pushed : c.payloadJSON \in Range(queues[q])

(* ------------------- PredictImage: errors and frame -------------------- *)
\* C21: the image lookup comes after the SetNX: a request is at the lookup
\* only after its own SetNX created the key; when the lookup fails the request
\* is answered 404 "Image not found" by a step that touches neither the key,
\* a queue, a record nor an object, it has fetched nothing and pushed
\* nothing, and the key it created stays, running down from the full TTL.
C21_NotFoundAfterLock ==
    /\ [](\A c \in Calls :
            /\ c.pc = "getimage" =>
                /\ c.ok /\ c.got = CooldownTTL /\ hist[c.id].total >= 1
                /\ LockHeld(c.id)
            /\ c.fetched => c.image # NoImage
            /\ NotFound(c) =>
                /\ c.ok /\ c.got = CooldownTTL
                /\ c.image = NoImage /\ ~c.fetched /\ c.imgBytes = NoBytes
                /\ c.payloadJSON = NoPayload
                /\ c.attempted = {} /\ c.pushed = {}
                /\ LockHeld(c.id)
                /\ ~c.lapsed => RedisTTL(locks, LockKey(c.id)) > 0)
    /\ [][\A c \in Lost, c1 \in Gained : (StepOf(c, c1) /\ c.pc = "getimage") =>
            /\ locks' = locks /\ queues' = queues
            /\ images' = images /\ objects' = objects
            /\ c1.image = NoImage => NotFound(c1)]_vars

\* the lookup failed right after the key was set (TTL still full), and the
\* queues are empty
C21_Witness ==
    \E c \in Calls :
        /\ NotFound(c) /\ c.startFree /\ c.ok
        /\ locks[LockKey(c.id)] = [val |-> "1", ttl |-> CooldownTTL]
        /\ \A q \in AllQueues : queues[q] = << >>

\* C22: a cooldown key that exists has the value "1" and an expiry with
\* 0 < remaining TTL <= 5 minutes: the step that creates a key is a SetNX of
\* a request and gives it the full TTL in that same step, no step leaves a
\* key without expiry, and once the TTL has passed the key is gone, also
\* when the request that set it never took another step.
C22_LockAlwaysExpires ==
    /\ [](\A k \in LockKeys :
            locks[k] # NoKey => locks[k].val = "1" /\ locks[k].ttl \in 1..CooldownTTL)
    /\ [](\A R \in Resources :
            hist[R].age >= CooldownTTL => locks[LockKey(R)] = NoKey)
    /\ [][\A k \in LockKeys : (locks[k] = NoKey /\ locks'[k] # NoKey) =>
            /\ locks'[k] = [val |-> "1", ttl |-> CooldownTTL]
            /\ \E c \in Lost, c1 \in Gained :
                /\ StepOf(c, c1) /\ c.pc = "setnx" /\ c1.ok
                /\ LockKey(c.id) = k]_vars

\* a request that stopped right after its SetNX (it is still before the
\* image lookup): its key ran out all the same
C22_Witness ==
    \E c \in Calls :
        /\ c.ok /\ c.pc = "getimage" /\ c.lapsed
        /\ hist[c.id].total = 1
        /\ locks[LockKey(c.id)] = NoKey

\* C23: a request whose SetNX returns an error is answered 500 "Redis error"
\* by that step, which leaves the key, the queues, the records and the
\* objects as they are, and the request has looked up no image, fetched
\* nothing and pushed nothing; 500 "Redis error" is given for no other
\* reason.  A request whose first TTL read returns an error is not answered
\* by that step: it goes on to SetNX, also when the key exists.
C23_RedisErrors ==
    /\ [](\A c \in Calls : RedisError(c) =>
            /\ ~c.ok /\ c.redisErr /\ c.got = 0
            /\ c.image = NoImage /\ ~c.fetched /\ c.imgBytes = NoBytes
            /\ c.payloadJSON = NoPayload /\ c.attempted = {} /\ c.pushed = {})
    /\ [][\A c \in Lost, c1 \in Gained : (StepOf(c, c1) /\ c.pc = "setnx") =>
            /\ nfaults' > nfaults =>
                /\ RedisError(c1)
                /\ locks' = locks /\ queues' = queues
                /\ images' = images /\ objects' = objects /\ hist' = hist
            /\ RedisError(c1) => nfaults' > nfaults]_vars
    /\ [][\A c1 \in Gained :
            (BagCardinality(calls') > BagCardinality(calls) /\ nfaults' > nfaults) =>
                /\ c1.pc = "setnx" /\ c1.status = 0 /\ c1.redisErr
                /\ locks' = locks]_vars

\* the SetNX of one request returned an error and set nothing: the next
\* request for the image found no key and acquired it
C23_Witness ==
    \E c, d \in Calls :
        /\ RedisError(c) /\ c.startFree
        /\ d.id = c.id /\ d.startFree /\ d.ok /\ ~d.raced
        /\ hist[c.id].total = 1
        /\ locks[LockKey(c.id)] # NoKey

\* the list old is the beginning of the list new
IsPrefix(old, new) ==
    Len(old) <= Len(new) /\ SubSeq(new, 1, Len(old)) = old

\* C24: PredictImage only appends, and only to the GPT, Claude and Gemini
\* queues: no step of a request, whatever its outcome, changes the result
\* queue, removes or reorders an entry of any queue (each queue keeps what it
\* held, in order, at its head), changes an image record or changes an
\* object; the result queue stays as it was at the start.
C24_ProducerOnly ==
    /\ [][/\ queues'[QueueResult] = queues[QueueResult]
          /\ \A q \in AllQueues : IsPrefix(queues[q], queues'[q])
          /\ \A q \in AllQueues : queues'[q] # queues[q] =>
                /\ q \in {QueueGPT, QueueClaude, QueueGemini}
                /\ \E c \in Lost : c.pc = "rpush" /\ queues'[q] = Append(queues[q], c.payloadJSON)
          /\ images' = images /\ objects' = objects]_vars
    /\ [](queues[QueueResult] = << >>)

\* two requests went through all their pushes, a cooldown apart: each model
\* queue holds both payloads, the older one first, and the result queue is
\* empty
C24_Witness ==
    /\ \A q \in {QueueGPT, QueueClaude, QueueGemini} : Len(queues[q]) = 2
    /\ queues[QueueResult] = << >>
    /\ \A c \in Calls : Success(c) /\ c.pushed = {QueueGPT, QueueClaude, QueueGemini}
    /\ BagCardinality(calls) = 2

(* ----------------- image records: delete and update -------------------- *)
\* ImageHandler.DeleteImage, UpdateImage and UpdateGroundTruth with their use
\* cases and the repository.  The requests are records in the bag calls.

\* locals of one request, followed by its history:
\*   found    the record as GetByID returned it
\*   before   the record as it was in the store right before this request's Save
\*   removed  RemoveObject went through
\*   deleted  imageRepo.Delete went through
\*   saved    imageRepo.Update went through
NewOp ==
    [ pc |-> "new", op |-> "", id |-> "",
      predictedLabels |-> NilMap, evaluationScores |-> NilMap,
      groundTruth |-> NilMap, image |-> NoImage, status |-> 0, body |-> "",
      found |-> NoImage, before |-> NoImage,
      removed |-> FALSE, deleted |-> FALSE, saved |-> FALSE ]

\* the store without the entry of key
Without(store, key) == [k \in DOMAIN store \ {key} |-> store[k]]

\* DELETE /api/v1/images/:id: uuid.Parse of the path parameter
DeleteImage(idStr) ==
    /\ BagCardinality(calls) < MaxCalls
    /\ LET id == UUIDParse(idStr)
           d == [NewOp EXCEPT !.op = "DeleteImage", !.id = id]
       IN  calls' = calls (+) One(
                IF id = "" THEN Respond(d, 400, "Invalid ID format")
                ELSE [d EXCEPT !.pc = "getbyid"])
    /\ UNCHANGED << locks, queues, images, objects, hist, nfaults, conn >>

\* PUT /api/v1/images/:id: uuid.Parse, then ShouldBindJSON of the body with
\* the members predicted_labels and evaluation_scores (bindErr: the body is
\* not a JSON object of that shape)
UpdateImage(idStr, predictedLabels, evaluationScores, bindErr) ==
    /\ BagCardinality(calls) < MaxCalls
    /\ LET id == UUIDParse(idStr)
           c == [NewOp EXCEPT !.op = "UpdateImage", !.id = id]
       IN  calls' = calls (+) One(
                IF id = "" THEN Respond(c, 400, "Invalid ID format")
                ELSE IF bindErr THEN Respond(c, 400, "Invalid request format")
                ELSE [c EXCEPT !.pc = "getbyid",
                               !.predictedLabels = predictedLabels,
                               !.evaluationScores = evaluationScores])
    /\ UNCHANGED << locks, queues, images, objects, hist, nfaults, conn >>

\* PUT /api/v1/images/:id/ground-truth: uuid.Parse, then ShouldBindJSON of the
\* body with the member ground_truth
UpdateGroundTruth(idStr, groundTruth, bindErr) ==
    /\ BagCardinality(calls) < MaxCalls
    /\ LET id == UUIDParse(idStr)
           c == [NewOp EXCEPT !.op = "UpdateGroundTruth", !.id = id]
       IN  calls' = calls (+) One(
                IF id = "" THEN Respond(c, 400, "Invalid ID format")
                ELSE IF bindErr THEN Respond(c, 400, "Invalid request format")
                ELSE [c EXCEPT !.pc = "getbyid", !.groundTruth = groundTruth])
    /\ UNCHANGED << locks, queues, images, objects, hist, nfaults, conn >>

\* UpdateImage on the record it read: a map that is not nil replaces the
\* field with its JSON text, a nil map leaves the field
SetPredictions(image, predictedLabels, evaluationScores) ==
    [image EXCEPT
        !.PredictedLabels =
            IF predictedLabels.nil THEN @ ELSE MarshalMap(predictedLabels),
        !.EvaluationScores =
            IF evaluationScores.nil THEN @ ELSE MarshalMap(evaluationScores)]

\* UpdateGroundTruth on the record it read: the field is assigned the JSON
\* text of the map, NULL for a nil map
SetGroundTruth(image, groundTruth) ==
    [image EXCEPT !.GroundTruth = JSONOf(groundTruth)]

\* after imageRepo.GetByID in DeleteImage, UpdateImage and UpdateGroundTruth:
\* an error ends the use case ("failed to get image: ..."), which the handler
\* answers with 500; otherwise the use case goes on with the record it got
AfterGetByID(c, found, image) ==
    IF ~found THEN Respond(c, 500, "failed to get image")
    ELSE CASE c.op = "DeleteImage" ->
                [c EXCEPT !.pc = "removeobject", !.found = image, !.image = image]
           [] c.op = "UpdateImage" ->
                [c EXCEPT !.pc = "update", !.found = image,
                          !.image = SetPredictions(image, c.predictedLabels,
                                                   c.evaluationScores)]
           [] c.op = "UpdateGroundTruth" ->
                [c EXCEPT !.pc = "update", !.found = image,
                          !.image = SetGroundTruth(image, c.groundTruth)]

\* db.Where("id = ?", id).First(&image)
GetByID(c, fail) ==
    /\ c.pc = "getbyid"
    /\ Fault(fail)
    /\ LET found == ~fail /\ c.id \in DOMAIN images
       IN  calls' = Moved(calls, c,
                AfterGetByID(c, found, IF found THEN images[c.id] ELSE NoImage))
    /\ UNCHANGED << locks, queues, images, objects, hist, conn >>

\* mutant: the error of RemoveObject is not looked at
AfterRemoveObjectErrDropped(d, failed) ==
    [d EXCEPT !.pc = "delete", !.removed = ~failed]

\* after RemoveObject: an error ends DeleteImage, otherwise the record is
\* deleted next
AfterRemoveObject(d, failed) ==
    IF failed THEN Respond(d, 500, "failed to delete file from MinIO")
    ELSE [d EXCEPT !.pc = "delete", !.removed = TRUE]

\* minioClient.RemoveObject(ctx, bucket, image.MinioPath, ...); removing an
\* object that is not there is no error
RemoveObject(d, fail) ==
    /\ d.pc = "removeobject"
    /\ Fault(fail)
    /\ objects' = IF fail THEN objects ELSE Without(objects, d.image.MinioPath)
    /\ calls' = Moved(calls, d, AfterRemoveObject(d, fail))
    /\ UNCHANGED << locks, queues, images, hist, conn >>

\* db.Where("id = ?", id).Delete(&entity.Image{}); deleting no row is no
\* error; the handler answers 500 with the text of the error, or 200
Delete(d, fail) ==
    /\ d.pc = "delete"
    /\ Fault(fail)
    /\ images' = IF fail THEN images ELSE Without(images, d.id)
    /\ calls' = Moved(calls, d,
            IF fail THEN Respond(d, 500, "database error")
            ELSE [Respond(d, 200, "Image deleted successfully")
                    EXCEPT !.deleted = TRUE])
    /\ UNCHANGED << locks, queues, objects, hist, conn >>

\* db.Save(image): every column of the row with the primary key of image is
\* written from the struct (the row is inserted if there is none), and
\* updated_at is the time of the write
Save(store, image, now) ==
    [r \in DOMAIN store \cup {image.ID} |->
        IF r = image.ID THEN [image EXCEPT !.UpdatedAt = now] ELSE store[r]]

\* image.UpdatedAt = time.Now(); imageRepo.Update(ctx, image); UpdateImage
\* answers 200 with the record, UpdateGroundTruth goes on to the signed URL
Update(c, fail) ==
    /\ c.pc = "update"
    /\ Fault(fail)
    /\ images' = IF fail THEN images ELSE Save(images, c.image, TimeNow)
    /\ LET c1 == [c EXCEPT !.saved = TRUE, !.image.UpdatedAt = TimeNow,
                           !.before = IF c.id \in DOMAIN images THEN images[c.id]
                                      ELSE NoImage]
       IN  calls' = Moved(calls, c,
                IF fail THEN Respond(c, 500, "failed to update image")
                ELSE IF c.op = "UpdateGroundTruth" THEN [c1 EXCEPT !.pc = "signedurl"]
                ELSE Respond(c1, 200, ""))
    /\ UNCHANGED << locks, queues, objects, hist, conn >>

\* UpdateGroundTruth: signedURL, err := imageUseCase.GetImageURL(...), then 200
SignedURL(c, fail) ==
    /\ c.pc = "signedurl"
    /\ Fault(fail)
    /\ calls' = Moved(calls, c,
            IF fail THEN Respond(c, 500, "Failed to generate image URL")
            ELSE Respond(c, 200, ""))
    /\ UNCHANGED << locks, queues, images, objects, hist, conn >>

\* an upload that passes the checks of the handler
GoodFile ==
    [Filename |-> "x.png", ContentType |-> "image/png", Size |-> 1,
     Content |-> << 137, 80 >>]

\* uploads and deletions, of the images of the start and of uploaded ones;
\* every round trip to the object store and to the database may fail
NextStore ==
    \/ UploadImage(GoodFile, "{\"k\": 1}")
    \/ \E u \in Calls, fail \in BOOLEAN : PutObject(u, fail)
    \/ \E u \in Calls, fail \in BOOLEAN : Create(u, fail)
    \/ \E u \in Calls, fail \in BOOLEAN : GetImageURL(u, fail)
    \/ \E idStr \in {"a", "zz"} \cup DOMAIN images : DeleteImage(idStr)
    \/ \E d \in Calls, fail \in BOOLEAN : GetByID(d, fail)
    \/ \E d \in Calls, fail \in BOOLEAN : RemoveObject(d, fail)
    \/ \E d \in Calls, fail \in BOOLEAN : Delete(d, fail)

SpecStore == Init /\ [][NextStore]_vars

\* path parameters and maps of the update requests
IdStringsUpdate == {"a", "b", "zz"}
PredictedLabelsMaps == {NilMap, [nil |-> FALSE, kv |-> << "k", 1 >>]}
EvaluationScoresMaps == {NilMap, [nil |-> FALSE, kv |-> << "m", 2 >>]}
GroundTruthMaps ==
    {NilMap, [nil |-> FALSE, kv |-> << >>], [nil |-> FALSE, kv |-> << "m", 2 >>]}

\* updates of the predictions and of the ground truth of an image, served
\* concurrently; every round trip may fail
NextUpdate ==
    \/ \E idStr \in IdStringsUpdate, predictedLabels \in PredictedLabelsMaps,
          evaluationScores \in EvaluationScoresMaps :
            UpdateImage(idStr, predictedLabels, evaluationScores, FALSE)
    \/ UpdateImage("a", NilMap, NilMap, TRUE)
    \/ \E idStr \in IdStringsUpdate, groundTruth \in GroundTruthMaps :
            UpdateGroundTruth(idStr, groundTruth, FALSE)
    \/ UpdateGroundTruth("a", NilMap, TRUE)
    \/ \E c \in Calls, fail \in BOOLEAN : GetByID(c, fail)
    \/ \E c \in Calls, fail \in BOOLEAN : Update(c, fail)
    \/ \E c \in Calls, fail \in BOOLEAN : SignedURL(c, fail)

SpecUpdate == Init /\ [][NextUpdate]_vars

\* C25: once every call has returned, every image record refers to an object
\* that is in the object store.
C25_NoDanglingRecord ==
    (\A c \in Calls : c.pc = "done") =>
        \A r \in DOMAIN images : images[r].MinioPath \in DOMAIN objects

\* a step that takes a delete or update request from c to c1
OpStep(c, c1) ==
    /\ c \in Lost /\ c1 \in Gained
    /\ "op" \in DOMAIN c /\ "op" \in DOMAIN c1
    /\ c1.op = c.op /\ c1.id = c.id /\ c1.pc # c.pc

\* the delete requests
Deletes == {d \in Calls : "op" \in DOMAIN d /\ d.op = "DeleteImage"}

\* C26: DeleteImage looks the record up, then removes the object, then
\* deletes the record, and stops at the first failure: the lookup changes
\* nothing, and when it fails the request is answered 500 with nothing
\* removed; the removal of the object leaves the records alone, and when it
\* fails the object stays too and the request is answered 500 with the error;
\* a record disappears only in the last step of a delete request for it whose
\* object removal went through, and an object disappears only in the removal
\* step of a delete request that found the record naming it.
C26_DeleteStopsAtFirstFailure ==
    /\ [](\A d \in Deletes :
            /\ d.pc = "delete" => d.removed
            /\ d.deleted => d.removed
            /\ d.removed => d.found # NoImage /\ d.found.ID = d.id
            /\ (d.pc = "done" /\ d.body = "failed to get image") =>
                d.status = 500 /\ d.found = NoImage /\ ~d.removed /\ ~d.deleted
            /\ (d.pc = "done" /\ d.body = "failed to delete file from MinIO") =>
                d.status = 500 /\ ~d.removed /\ ~d.deleted
            /\ (d.pc = "done" /\ d.status = 200) => d.removed /\ d.deleted)
    /\ [][\A d \in Lost, d1 \in Gained : (OpStep(d, d1) /\ d.op = "DeleteImage") =>
            /\ d.pc = "getbyid" =>
                /\ images' = images /\ objects' = objects
                /\ (d.id \notin DOMAIN images \/ nfaults' > nfaults) =>
                    d1.pc = "done" /\ d1.status = 500 /\ d1.body = "failed to get image"
            /\ d.pc = "removeobject" =>
                /\ images' = images
                /\ nfaults' > nfaults =>
                    /\ objects' = objects
                    /\ d1.pc = "done" /\ d1.status = 500
                    /\ d1.body = "failed to delete file from MinIO"
                /\ nfaults' = nfaults =>
                    /\ DOMAIN objects' = DOMAIN objects \ {d.found.MinioPath}
                    /\ d1.pc = "delete"
            /\ d.pc = "delete" =>
                /\ objects' = objects
                /\ d.found.MinioPath \notin DOMAIN objects
                /\ nfaults' > nfaults => images' = images /\ d1.status = 500
                /\ nfaults' = nfaults =>
                    DOMAIN images' = DOMAIN images \ {d.id} /\ d1.status = 200]_vars
    /\ [][/\ \A r \in DOMAIN images \ DOMAIN images' :
                \E d \in Lost \cap Deletes : d.pc = "delete" /\ d.removed /\ d.id = r
          /\ \A path \in DOMAIN objects \ DOMAIN objects' :
                \E d \in Lost \cap Deletes :
                    d.pc = "removeobject" /\ d.found.MinioPath = path]_vars

\* the removal of the object failed: the request is answered 500 with that
\* error, and both the record and the object are still there
C26_Witness ==
    \E d \in Deletes :
        /\ d.pc = "done" /\ d.status = 500
        /\ d.body = "failed to delete file from MinIO"
        /\ d.id \in DOMAIN images /\ images[d.id] = d.found
        /\ d.found.MinioPath \in DOMAIN objects

\* the update requests, and the number of them that saved the record of r
Updates ==
    {c \in Calls : "op" \in DOMAIN c /\ c.op \in {"UpdateImage", "UpdateGroundTruth"}}
SavedFor(r) == SumCopies({c \in Updates : c.saved /\ c.id = r}, calls)

\* C27: when exactly two update requests have saved the record of an image,
\* an UpdateImage and an UpdateGroundTruth, or two UpdateImage of which one
\* gave only predicted labels and the other only evaluation scores, the
\* record holds what both wrote: the ground truth of the one and the
\* predicted labels and evaluation scores of the other.
C27_NoLostUpdate ==
    \A c, d \in Updates :
        (c.saved /\ d.saved /\ c.id = d.id /\ SavedFor(c.id) = 2) =>
            /\ (c.op = "UpdateImage" /\ d.op = "UpdateGroundTruth") =>
                /\ images[c.id].GroundTruth = JSONOf(d.groundTruth)
                /\ ~c.predictedLabels.nil =>
                    images[c.id].PredictedLabels = MarshalMap(c.predictedLabels)
                /\ ~c.evaluationScores.nil =>
                    images[c.id].EvaluationScores = MarshalMap(c.evaluationScores)
            /\ ( /\ c.op = "UpdateImage" /\ d.op = "UpdateImage"
                 /\ ~c.predictedLabels.nil /\ c.evaluationScores.nil
                 /\ d.predictedLabels.nil /\ ~d.evaluationScores.nil ) =>
                /\ images[c.id].PredictedLabels = MarshalMap(c.predictedLabels)
                /\ images[c.id].EvaluationScores = MarshalMap(d.evaluationScores)

\* C28: every step of an UpdateImage request leaves the records of the other
\* images as they are and leaves id, name, storage path, ground truth and
\* created_at of its own image's record as they are; predicted labels and
\* evaluation scores stay too when the request passed nil for them; the
\* lookup changes no record, and a step whose round trip fails (lookup or
\* save) changes no record.
C28_UpdateImageFrame ==
    [][\A c \in Lost, c1 \in Gained : (OpStep(c, c1) /\ c.op = "UpdateImage") =>
            /\ DOMAIN images' = DOMAIN images
            /\ \A r \in DOMAIN images \ {c.id} : images'[r] = images[r]
            /\ c.id \in DOMAIN images =>
                /\ images'[c.id].ID = images[c.id].ID
                /\ images'[c.id].Name = images[c.id].Name
                /\ images'[c.id].MinioPath = images[c.id].MinioPath
                /\ images'[c.id].GroundTruth = images[c.id].GroundTruth
                /\ images'[c.id].CreatedAt = images[c.id].CreatedAt
                /\ c.predictedLabels.nil =>
                    images'[c.id].PredictedLabels = images[c.id].PredictedLabels
                /\ c.evaluationScores.nil =>
                    images'[c.id].EvaluationScores = images[c.id].EvaluationScores
            /\ c.pc = "getbyid" => images' = images
            /\ nfaults' > nfaults => images' = images]_vars

====
